---- MODULE Spec2Model ----
(***************************************************************************)
(* InfoGenius: the infographic session of hooks/useInfographicSession.ts   *)
(* together with restoreImage and handleSelectKey of App.tsx.  The saved   *)
(* library (savedImages, backed by the store of services/db.ts) is read by *)
(* restoreImage and holds what an earlier session saved.                   *)
(*                                                                         *)
(* Every handler of the hook is an async function.  Its code up to the     *)
(* first await runs when the handler is invoked and reads the React state  *)
(* of the render it was created in (isLoading, imageHistory, historyIndex  *)
(* are closure constants of that invocation); the code after an await runs *)
(* when the awaited call settles.  Each of these segments is one action:   *)
(* React batches the setState calls of a segment into one commit.  An      *)
(* invocation that is awaiting occupies a slot of `ops`, holding the       *)
(* values its closure captured.                                            *)
(*                                                                         *)
(* Not modelled: loadingMessage (a display string written next to          *)
(* loadingStep) and the form setters with handleGenerate, which passes the *)
(* form state to executeGeneration as handleAutoGenerate passes its        *)
(* arguments.                                                              *)
(***************************************************************************)
EXTENDS Integers, Sequences, FiniteSets, TLC

(* ---------------------------- bounds ---------------------------------- *)
\* async handler invocations that may be awaiting at the same time
MaxInFlight == 2
\* gateway operations started in one session
MaxCalls == 2
\* last value of the millisecond clock (Date.now())
MaxTime == 3
\* calls of the artifact store that may be open at the same time
MaxStoreOps == 2
\* connect() calls of the live channel that get past their guard
MaxConnects == 2
\* microphone buffers handed to onaudioprocess
MaxFrames == 1
\* messages the remote endpoint sends
MaxInbound == 2
\* last value of the output context's clock
MaxPlayTime == 2

(* ---------------------------- values ---------------------------------- *)
\* a JavaScript `undefined` field, and a defined one
Undefined == [def |-> FALSE]
Some(v) == [def |-> TRUE, val |-> v]

\* `null` of `error: string | null`
NULL == "<null>"

\* image payloads the gateway may return
Images == {"img1", "img2"}

\* arguments of a generation request: <<topic, level, style, language>>
GenInputs ==
    { <<"Photosynthesis", "Elementary", "Cartoon", "English">>,
      <<"  ", "College", "Default", "English">> }

\* edit instructions
EditPrompts == {"make the sun bigger"}

\* what researchTopicForPrompt may resolve to
ResearchResults ==
    { [imagePrompt |-> "layout", facts |-> <<"f1", "f2", "f3">>, searchResults |-> <<"u1">>],
      [imagePrompt |-> "fallback", facts |-> <<>>, searchResults |-> <<>>] }

\* what the parsed JSON of verifyInfographicAccuracy may be
VerifyOutcomes == { [score |-> 50, isAccurate |-> FALSE] }

\* messages of the errors a gateway call may reject with ("" : no message)
GatewayErrors == {"403", "No image generated.", ""}

\* what getUserLocation may resolve to
Locations == {"latlng", "undefined"}

\* String.prototype.trim on the topics of GenInputs
Trim(t) == IF t = "  " THEN "" ELSE t

\* the library at start-up: an artifact saved by an earlier session, made without
\* recorded facts and verified there
SavedChart ==
    [id |-> ToString(0), data |-> "img1", prompt |-> "add a legend",
     originalTopic |-> "Photosynthesis",
     facts |-> Undefined, timestamp |-> 0, level |-> "High School", style |-> "Default",
     language |-> "English",
     verification |-> [def |-> TRUE, score |-> 50, isAccurate |-> FALSE, timestamp |-> 0,
                       of |-> "img1"],
     videoUri |-> Undefined]

\* the keys of the object store 'saved_images' (keyPath 'id'), in key order
StoreKeys == <<ToString(0), ToString(1)>>

\* a ref of useLiveSession that holds null; a ref that is set holds the number of the
\* connect() call that created the object
NoRef == 0

\* what a connect() call that has not been made has created
NotCalled ==
    [stage |-> "idle", image |-> "none", ctx |-> "none", stream |-> "none", proc |-> "none",
     procCtx |-> NoRef, socket |-> "none", resolved |-> FALSE, reactions |-> <<>>,
     sent |-> <<>>]

(* ---------------------------- state ----------------------------------- *)
VARIABLES
    topic, complexityLevel, visualStyle, language,   \* generation parameters
    isLoading, loadingStep, loadingFacts, error,
    imageHistory, historyIndex, currentSearchResults,
    hasApiKey,                                      \* App: cleared by onAuthError
    savedImages,                                    \* App: in-memory library list
    db,                                             \* IndexedDB store 'saved_images'
    ops,                                            \* awaiting handler invocations
    now,                                            \* Date.now()
    videoCalls,                                     \* ghost: generateCinematicSummary calls per artifact
    everInHistory,                                  \* ghost: ids that have been in imageHistory
    calls,                                          \* ghost: gateway operations started
    last,                                           \* ghost: the handler segment that ran last
    request,                                        \* geminiService: the call being served
    response,                                       \* geminiService: what the remote model answered
    returned,                                       \* geminiService: what the call returned or threw
    storeOps,                                       \* db.ts: calls of the store that have not been taken
    written,                                        \* ghost: the last write the store ran, per key
    isConnected, isConnecting, volume, liveError,   \* useLiveSession: React state
    inputContext, outputContext,                    \* useLiveSession: inputContextRef, outputContextRef
    mediaStream, sourceNode, processor,             \* useLiveSession: mediaStreamRef, sourceRef, processorRef
    nextStartTime, audioQueue,                      \* useLiveSession: nextStartTimeRef, audioQueueRef
    activeSession,                                  \* useLiveSession: activeSessionRef
    conn,                                           \* what each connect() call created
    bufferSources,                                  \* the buffer sources the output context is to play
    playTime,                                       \* currentTime of the output context
    frames, inbound,                                \* ghost: audio callbacks and inbound messages so far
    liveLast,                                       \* ghost: what the step just taken handled
    disconnected                                    \* ghost: disconnect() was called and connect() not since

params == <<topic, complexityLevel, visualStyle, language>>
loading == <<isLoading, loadingStep, loadingFacts, currentSearchResults>>
library == <<savedImages, db>>
\* the state of the hook and of App
app == <<topic, complexityLevel, visualStyle, language, isLoading, loadingStep,
         loadingFacts, error, imageHistory, historyIndex, currentSearchResults,
         hasApiKey, savedImages, ops, now, videoCalls, everInHistory, calls, last>>
\* the session: the hook and App over the saved library
session == <<app, db>>
\* one call of a function of geminiService.ts, looked at from inside
gateway == <<request, response, returned>>
\* the calls of db.ts, looked at from inside
store == <<storeOps, written>>
\* the live discussion channel of useLiveSession.ts
liveState == <<isConnected, isConnecting, volume, liveError>>
liveRefs == <<inputContext, outputContext, mediaStream, sourceNode, processor, activeSession>>
playback == <<nextStartTime, audioQueue, bufferSources>>
live == <<liveState, liveRefs, playback, conn, playTime, frames, inbound, liveLast,
         disconnected>>
vars == <<session, gateway, store, live>>

\* what the actions of one part leave alone
besidesSession == <<gateway, store, live>>
besidesGateway == <<session, store, live>>
besidesStore == <<app, gateway, live>>
besidesLive == <<session, gateway, store>>

Slots == 1..MaxInFlight

Idle == [kind |-> "idle"]

\* the kinds of invocation that await a gateway call
GatewayKinds == {"generate", "edit", "verify", "animate", "refresh"}

InFlight == {k \in Slots : ops[k].kind \in GatewayKinds}

HasFreeSlot == \E k \in Slots : ops[k].kind = "idle"
FreeSlot == CHOOSE k \in Slots : ops[k].kind = "idle" /\ \A j \in Slots : ops[j].kind = "idle" => k <= j

\* a handler may start another gateway operation
MayStart == HasFreeSlot /\ calls < MaxCalls

Ids(h) == {h[i].id : i \in 1..Len(h)}

\* imageHistory[historyIndex] (historyIndex counts from 0)
At(h, i) == h[i + 1]
InRange(h, i) == i >= 0 /\ i < Len(h)

\* Array.prototype.findIndex(x => x.id === id), -1 when absent
FindIndex(h, id) ==
    IF \E i \in 1..Len(h) : h[i].id = id
    THEN (CHOOSE i \in 1..Len(h) : h[i].id = id /\ \A j \in 1..(i - 1) : h[j].id # id) - 1
    ELSE -1

\* array copy with one index assigned: n = [...h]; n[i] = x
ReplaceAt(h, i, x) == [h EXCEPT ![i + 1] = x]

\* setImageHistory(prev => [image, ...prev])
Prepend(image, prev) == <<image>> \o prev

IsAuthMessage(m) == m \in {"Requested entity was not found", "404", "403"}

\* variant of ErrorMessageOf: no default for an error without message
ErrorMessageOf_NoDefault(m) ==
    IF m # "" /\ IsAuthMessage(m)
    THEN "Access denied. Ensure you have a paid API key selected for these models."
    ELSE m

\* handleError: the message stored in `error`
ErrorMessageOf(m) ==
    IF m # "" /\ IsAuthMessage(m)
    THEN "Access denied. Ensure you have a paid API key selected for these models."
    ELSE IF m # "" THEN m ELSE "An unexpected error occurred."

\* variant of CallsOnAuthError: every error that carries a message asks for a new key
CallsOnAuthError_AnyMessage(m) == m # ""

\* handleError: whether onAuthError() is called
CallsOnAuthError(m) == m # "" /\ IsAuthMessage(m)

Init ==
    /\ topic = ""
    /\ complexityLevel = "High School"
    /\ visualStyle = "Default"
    /\ language = "English"
    /\ isLoading = FALSE
    /\ loadingStep = 0
    /\ loadingFacts = <<>>
    /\ error = NULL
    /\ imageHistory = <<>>
    /\ historyIndex = 0
    /\ currentSearchResults = <<>>
    /\ hasApiKey = TRUE
    /\ db = {SavedChart}
    /\ savedImages = <<SavedChart>>
    /\ ops = [k \in Slots |-> Idle]
    /\ now = 2
    /\ videoCalls = [i \in {} |-> 0]
    /\ everInHistory = {}
    /\ calls = 0
    /\ last = [act |-> "init", val |-> "none", at |-> 0]
    /\ request = [fn |-> "none"]
    /\ response = Undefined
    /\ returned = [kind |-> "pending"]
    /\ storeOps = [k \in 1..MaxStoreOps |-> Idle]
    /\ written = [i \in 1..Len(StoreKeys) |-> [op |-> "none"]]
    /\ isConnected = FALSE
    /\ isConnecting = FALSE
    /\ volume = 0
    /\ liveError = NULL
    /\ inputContext = NoRef
    /\ outputContext = NoRef
    /\ mediaStream = NoRef
    /\ sourceNode = NoRef
    /\ processor = NoRef
    /\ nextStartTime = 0
    /\ audioQueue = <<>>
    /\ activeSession = NoRef
    /\ conn = [n \in 1..MaxConnects |-> NotCalled]
    /\ bufferSources = {}
    /\ playTime = 0
    /\ frames = 0
    /\ inbound = 0
    /\ liveLast = [act |-> "none"]
    /\ disconnected = FALSE


(* ------------------------- ghost bookkeeping --------------------------- *)
\* the artifact an attachment belongs to: its fields other than the attachments
Key(a) == [a EXCEPT !.verification = Undefined, !.videoUri = Undefined]

Count(f, x) == IF x \in DOMAIN f THEN f[x] ELSE 0
\* one more call recorded for x (counts above 2 are not told apart)
Bump(f, x) == (x :> (IF Count(f, x) >= 2 THEN 2 ELSE Count(f, x) + 1)) @@ f

\* the segments `last` tells apart: those that resume from a settled gateway call
\* or store call, and the restore of a library artifact
Settled == {"generateOk", "editOk", "verifyOk", "animateOk", "refreshOk", "rejected",
            "restore", "libraryOk", "libraryFailed"}

\* ghost bookkeeping of a handler segment: a names the segment that runs, v is the
\* value the settled call returned and i the historyIndex its closure captured; the
\* segments that start a gateway operation are counted.  The session sees a gateway
\* call only through what it resolves to: the inside of the call is left alone
RanFrom(a, v, i) ==
    /\ last' = IF a \in Settled THEN [act |-> a, val |-> v, at |-> i]
                ELSE [act |-> "other", val |-> "none", at |-> 0]
    /\ calls' = IF a \in GatewayKinds THEN calls + 1 ELSE calls
    /\ UNCHANGED besidesSession
RanWith(a, v) == RanFrom(a, v, 0)
Ran(a) == RanWith(a, "none")

\* the `finally` block of every handler
Finally ==
    /\ isLoading' = FALSE
    /\ loadingStep' = 0

(* ----------------------------- the clock ------------------------------- *)
Tick ==
    /\ now < MaxTime
    /\ now' = now + 1
    /\ Ran("tick")
    /\ UNCHANGED <<params, loading, error, imageHistory, historyIndex, hasApiKey,
                   library, ops, videoCalls, everInHistory>>

(* --------------------------- Generate ---------------------------------- *)
\* executeGeneration up to its first await; g = <<t, l, v, lng>>
executeGeneration(g) ==
    IF isLoading \/ Trim(g[1]) = ""
    THEN /\ Ran("generateDropped")
         /\ UNCHANGED <<loading, error, ops>>
    ELSE /\ MayStart
         /\ isLoading' = TRUE
         /\ error' = NULL
         /\ loadingStep' = 1
         /\ loadingFacts' = <<>>
         /\ currentSearchResults' = <<>>
         /\ ops' = [ops EXCEPT ![FreeSlot] =
                      [kind |-> "generate", stage |-> "location", hist |-> imageHistory,
                       idx |-> historyIndex, arg |-> g, loc |-> "unset",
                       res |-> Undefined, gated |-> isLoading, during |-> {ops[j].kind : j \in InFlight}]]
         /\ Ran("generate")

\* handleAutoGenerate(t, l, v, lng)
handleAutoGenerate(g) ==
    /\ topic' = g[1] /\ complexityLevel' = g[2] /\ visualStyle' = g[3] /\ language' = g[4]
    /\ executeGeneration(g)
    /\ UNCHANGED <<imageHistory, historyIndex, hasApiKey, library, now, videoCalls,
                   everInHistory>>

\* variant of LocationResolve: a denial is thrown to the handler
LocationResolve_DenialRejects(k, loc) ==
    /\ ops[k].kind \in {"generate", "refresh"}
    /\ ops[k].stage = "location"
    /\ IF loc = "undefined"
       THEN /\ error' = "User denied Geolocation"
            /\ Finally
            /\ ops' = [ops EXCEPT ![k] = Idle]
            /\ UNCHANGED <<loadingFacts, currentSearchResults>>
       ELSE /\ ops' = [ops EXCEPT ![k].stage = "research", ![k].loc = loc]
            /\ UNCHANGED <<loading, error>>
    /\ Ran("location")
    /\ UNCHANGED <<params, imageHistory, historyIndex, hasApiKey,
                   library, now, videoCalls, everInHistory>>

\* getUserLocation settles: a position, or undefined on denial, absence or timeout
LocationResolve(k, loc) ==
    /\ ops[k].kind \in {"generate", "refresh"}
    /\ ops[k].stage = "location"
    /\ ops' = [ops EXCEPT ![k].stage = "research", ![k].loc = loc]
    /\ Ran("location")
    /\ UNCHANGED <<params, loading, error, imageHistory, historyIndex, hasApiKey,
                   library, now, videoCalls, everInHistory>>

\* researchTopicForPrompt resolves inside executeGeneration
GenerateResearchResolve(k, r) ==
    /\ ops[k].kind = "generate"
    /\ ops[k].stage = "research"
    /\ loadingFacts' = r.facts
    /\ currentSearchResults' = r.searchResults
    /\ loadingStep' = 2
    /\ ops' = [ops EXCEPT ![k].stage = "image", ![k].res = Some(r)]
    /\ Ran("research")
    /\ UNCHANGED <<params, isLoading, error, imageHistory, historyIndex, hasApiKey,
                   library, now, videoCalls, everInHistory>>

\* variant of NewImage: the artifact is labelled with the prompt the research step wrote
NewImage_PromptFromResearch(g, research, base64Data, t) ==
    [id |-> ToString(t), data |-> base64Data, prompt |-> research.imagePrompt,
     originalTopic |-> g[1],
     facts |-> Some(research.facts), timestamp |-> t, level |-> g[2], style |-> g[3],
     language |-> g[4], verification |-> Undefined, videoUri |-> Undefined]

\* the artifact executeGeneration builds
NewImage(g, research, base64Data, t) ==
    [id |-> ToString(t), data |-> base64Data, prompt |-> g[1], originalTopic |-> g[1],
     facts |-> Some(research.facts), timestamp |-> t, level |-> g[2], style |-> g[3],
     language |-> g[4], verification |-> Undefined, videoUri |-> Undefined]

\* variant of addToHistory: the entries newer than the current one are discarded
addToHistory_PrunesNewer(image) ==
    /\ imageHistory' = Prepend(image, SubSeq(imageHistory, historyIndex + 1, Len(imageHistory)))
    /\ historyIndex' = 0

\* addToHistory
addToHistory(image) ==
    /\ imageHistory' = Prepend(image, imageHistory)
    /\ historyIndex' = 0

\* generateInfographicImage resolves inside executeGeneration
GenerateImageResolve(k, base64Data) ==
    /\ ops[k].kind = "generate"
    /\ ops[k].stage = "image"
    /\ addToHistory(NewImage(ops[k].arg, ops[k].res.val, base64Data, now))
    /\ Finally
    /\ ops' = [ops EXCEPT ![k] = Idle]
    /\ everInHistory' = everInHistory \cup Ids(imageHistory')
    /\ RanFrom("generateOk", base64Data, ops[k].idx)
    /\ UNCHANGED <<params, loadingFacts, currentSearchResults, error, hasApiKey,
                   library, now, videoCalls>>

(* ------------------------------ Edit ----------------------------------- *)
\* variant of EditedImage: the video of the source artifact is not reset
EditedImage_KeepsVideo(currentImage, base64Data, editPrompt, t) ==
    [currentImage EXCEPT !.id = ToString(t), !.data = base64Data, !.prompt = editPrompt,
                         !.timestamp = t, !.verification = Undefined]

\* variant of EditedImage: the verification of the source artifact is not reset
EditedImage_KeepsVerification(currentImage, base64Data, editPrompt, t) ==
    [currentImage EXCEPT !.id = ToString(t), !.data = base64Data, !.prompt = editPrompt,
                         !.timestamp = t, !.videoUri = Undefined]

\* the artifact handleEdit builds from the one its closure captured
EditedImage(currentImage, base64Data, editPrompt, t) ==
    [currentImage EXCEPT !.id = ToString(t), !.data = base64Data, !.prompt = editPrompt,
                         !.timestamp = t, !.verification = Undefined,
                         !.videoUri = Undefined]

\* handleEdit up to its await
handleEdit(editPrompt) ==
    /\ IF Len(imageHistory) = 0
       THEN /\ Ran("editDropped")
            /\ UNCHANGED <<isLoading, loadingStep, error, ops>>
       ELSE IF ~InRange(imageHistory, historyIndex)
       THEN \* currentImage is undefined: reading currentImage.data throws inside the
            \* try block, the catch and the finally run before anything is awaited
            /\ error' = ErrorMessageOf("Cannot read properties of undefined")
            /\ Finally
            /\ Ran("editThrew")
            /\ UNCHANGED ops
       ELSE /\ MayStart
            /\ isLoading' = TRUE
            /\ error' = NULL
            /\ loadingStep' = 2
            /\ ops' = [ops EXCEPT ![FreeSlot] =
                         [kind |-> "edit", stage |-> "edit", hist |-> imageHistory,
                          idx |-> historyIndex, arg |-> <<editPrompt>>, loc |-> "unset",
                          res |-> Undefined, gated |-> isLoading, during |-> {ops[j].kind : j \in InFlight}]]
            /\ Ran("edit")
    /\ UNCHANGED <<params, loadingFacts, currentSearchResults, imageHistory, historyIndex,
                   hasApiKey, library, now, videoCalls, everInHistory>>

\* editInfographicImage resolves
EditResolve(k, base64Data) ==
    /\ ops[k].kind = "edit"
    /\ addToHistory(EditedImage(At(ops[k].hist, ops[k].idx), base64Data, ops[k].arg[1], now))
    /\ Finally
    /\ ops' = [ops EXCEPT ![k] = Idle]
    /\ everInHistory' = everInHistory \cup Ids(imageHistory')
    /\ RanFrom("editOk", base64Data, ops[k].idx)
    /\ UNCHANGED <<params, loadingFacts, currentSearchResults, error, hasApiKey,
                   library, now, videoCalls>>

(* ----------------------------- Verify ---------------------------------- *)
\* currentImage.facts || ["General knowledge about " + currentImage.prompt]
VerifyFacts(currentImage) ==
    IF currentImage.facts.def THEN currentImage.facts.val
    ELSE <<"General knowledge about " \o currentImage.prompt>>

\* handleVerify up to its await
handleVerify ==
    /\ IF Len(imageHistory) = 0
       THEN /\ Ran("verifyDropped")
            /\ UNCHANGED <<isLoading, loadingStep, ops>>
       ELSE IF ~InRange(imageHistory, historyIndex)
       THEN \* currentImage.facts throws before any state is set
            /\ Ran("verifyThrew")
            /\ UNCHANGED <<isLoading, loadingStep, ops>>
       ELSE /\ MayStart
            /\ isLoading' = TRUE
            /\ loadingStep' = 2
            /\ ops' = [ops EXCEPT ![FreeSlot] =
                         [kind |-> "verify", stage |-> "verify", hist |-> imageHistory,
                          idx |-> historyIndex,
                          arg |-> VerifyFacts(At(imageHistory, historyIndex)),
                          loc |-> "unset", res |-> Undefined, gated |-> isLoading, during |-> {ops[j].kind : j \in InFlight}]]
            /\ Ran("verify")
    /\ UNCHANGED <<params, loadingFacts, currentSearchResults, error, imageHistory,
                   historyIndex, hasApiKey, library, now, videoCalls, everInHistory>>

\* the VerificationResult of verifyInfographicAccuracy(imageBase64, facts); `of` is the
\* image the request carried
VerificationOf(imageBase64, outcome, t) ==
    [def |-> TRUE, score |-> outcome.score, isAccurate |-> outcome.isAccurate,
     timestamp |-> t, of |-> imageBase64]

\* verifyInfographicAccuracy resolves
VerifyResolve(k, outcome) ==
    /\ ops[k].kind = "verify"
    /\ LET currentImage == At(ops[k].hist, ops[k].idx)
           updatedImage == [currentImage EXCEPT
                              !.verification = VerificationOf(currentImage.data, outcome, now)]
       IN imageHistory' = ReplaceAt(ops[k].hist, ops[k].idx, updatedImage)
    /\ Finally
    /\ ops' = [ops EXCEPT ![k] = Idle]
    /\ everInHistory' = everInHistory \cup Ids(imageHistory')
    /\ RanWith("verifyOk", outcome)
    /\ UNCHANGED <<params, loadingFacts, currentSearchResults, error, historyIndex,
                   hasApiKey, library, now, videoCalls>>

(* ----------------------------- Animate --------------------------------- *)
\* handleAnimate up to its await
handleAnimate ==
    /\ IF Len(imageHistory) = 0
       THEN /\ Ran("animateDropped")
            /\ UNCHANGED <<isLoading, loadingStep, error, ops, videoCalls>>
       ELSE IF ~InRange(imageHistory, historyIndex)
       THEN \* currentImage.videoUri throws before any state is set
            /\ Ran("animateThrew")
            /\ UNCHANGED <<isLoading, loadingStep, error, ops, videoCalls>>
       ELSE IF At(imageHistory, historyIndex).videoUri.def
       THEN \* already animated
            /\ Ran("animateNoop")
            /\ UNCHANGED <<isLoading, loadingStep, error, ops, videoCalls>>
       ELSE /\ MayStart
            /\ isLoading' = TRUE
            /\ error' = NULL
            /\ loadingStep' = 3
            /\ ops' = [ops EXCEPT ![FreeSlot] =
                         [kind |-> "animate", stage |-> "video", hist |-> imageHistory,
                          idx |-> historyIndex, arg |-> <<>>, loc |-> "unset",
                          res |-> Undefined, gated |-> isLoading, during |-> {ops[j].kind : j \in InFlight}]]
            /\ videoCalls' = Bump(videoCalls, Key(At(imageHistory, historyIndex)))
            /\ Ran("animate")
    /\ UNCHANGED <<params, loadingFacts, currentSearchResults, imageHistory,
                   historyIndex, hasApiKey, library, now, everInHistory>>

\* the object URL of generateCinematicSummary(topic, imageBase64); `of` is the seed image
VideoOf(imageBase64) == [def |-> TRUE, uri |-> "blob:video", of |-> imageBase64]

\* generateCinematicSummary resolves
AnimateResolve(k) ==
    /\ ops[k].kind = "animate"
    /\ LET currentImage == At(ops[k].hist, ops[k].idx)
           updatedImage == [currentImage EXCEPT !.videoUri = VideoOf(currentImage.data)]
       IN imageHistory' = ReplaceAt(ops[k].hist, ops[k].idx, updatedImage)
    /\ Finally
    /\ ops' = [ops EXCEPT ![k] = Idle]
    /\ everInHistory' = everInHistory \cup Ids(imageHistory')
    /\ Ran("animateOk")
    /\ UNCHANGED <<params, loadingFacts, currentSearchResults, error, historyIndex,
                   hasApiKey, library, now, videoCalls>>

(* ------------------------- RefreshContext ------------------------------ *)
\* variant of RefreshTopic: the topic the artifact was generated for
RefreshTopic_OriginalTopic(currentImage) == currentImage.originalTopic

\* const currentTopic = imageHistory[historyIndex].prompt
RefreshTopic(currentImage) == currentImage.prompt

\* handleRefreshNews up to its first await
handleRefreshNews ==
    /\ IF Len(imageHistory) = 0
       THEN /\ Ran("refreshDropped")
            /\ UNCHANGED <<isLoading, loadingStep, ops>>
       ELSE IF ~InRange(imageHistory, historyIndex)
       THEN \* imageHistory[historyIndex].prompt throws before any state is set
            /\ Ran("refreshThrew")
            /\ UNCHANGED <<isLoading, loadingStep, ops>>
       ELSE /\ MayStart
            /\ isLoading' = TRUE
            /\ loadingStep' = 1
            /\ ops' = [ops EXCEPT ![FreeSlot] =
                         [kind |-> "refresh", stage |-> "location", hist |-> imageHistory,
                          idx |-> historyIndex,
                          arg |-> <<RefreshTopic(At(imageHistory, historyIndex)), complexityLevel,
                                    visualStyle, language>>,
                          loc |-> "unset", res |-> Undefined, gated |-> isLoading, during |-> {ops[j].kind : j \in InFlight}]]
            /\ Ran("refresh")
    /\ UNCHANGED <<params, loadingFacts, currentSearchResults, error, imageHistory,
                   historyIndex, hasApiKey, library, now, videoCalls, everInHistory>>

\* researchTopicForPrompt resolves inside handleRefreshNews
RefreshResolve(k, r) ==
    /\ ops[k].kind = "refresh"
    /\ ops[k].stage = "research"
    /\ currentSearchResults' = r.searchResults
    /\ loadingFacts' = IF Len(r.facts) > 0 THEN r.facts ELSE loadingFacts
    /\ Finally
    /\ ops' = [ops EXCEPT ![k] = Idle]
    /\ Ran("refreshOk")
    /\ UNCHANGED <<params, error, imageHistory, historyIndex, hasApiKey, library, now,
                   videoCalls, everInHistory>>

(* --------------------------- failures ---------------------------------- *)
\* handleError
handleError(m) ==
    /\ error' = ErrorMessageOf(m)
    /\ hasApiKey' = IF CallsOnAuthError(m) THEN FALSE ELSE hasApiKey

\* the awaited gateway call of slot k rejects with an error of message m:
\* the catch and the finally block of the handler run
Reject(k, m) ==
    /\ ops[k].kind \in GatewayKinds
    /\ ops[k].stage # "location"
    /\ handleError(m)
    /\ Finally
    /\ ops' = [ops EXCEPT ![k] = Idle]
    /\ RanWith("rejected", m)
    /\ UNCHANGED <<params, loadingFacts, currentSearchResults, imageHistory,
                   historyIndex, library, now, videoCalls, everInHistory>>

(* ----------------------------- library --------------------------------- *)
\* restoreImage(img), img an entry of the library modal
restoreImage_KeepsIndex(img) ==
    /\ LET idx == FindIndex(imageHistory, img.id)
       IN IF idx # -1
          THEN /\ UNCHANGED <<historyIndex, imageHistory, topic, everInHistory>>
          ELSE /\ imageHistory' = Prepend(img, imageHistory)
               /\ historyIndex' = 0
               /\ topic' = IF img.originalTopic # "" THEN img.originalTopic ELSE topic
               /\ everInHistory' = everInHistory \cup Ids(imageHistory')
    /\ RanWith("restore", img.id)
    /\ UNCHANGED <<complexityLevel, visualStyle, language, loading, error, hasApiKey,
                   library, ops, now, videoCalls>>

restoreImage(img) ==
    /\ LET idx == FindIndex(imageHistory, img.id)
       IN IF idx # -1
          THEN /\ historyIndex' = idx
               /\ UNCHANGED <<imageHistory, topic, everInHistory>>
          ELSE /\ imageHistory' = Prepend(img, imageHistory)
               /\ historyIndex' = 0
               /\ topic' = IF img.originalTopic # "" THEN img.originalTopic ELSE topic
               /\ everInHistory' = everInHistory \cup Ids(imageHistory')
    /\ RanWith("restore", img.id)
    /\ UNCHANGED <<complexityLevel, visualStyle, language, loading, error, hasApiKey,
                   library, ops, now, videoCalls>>

\* handleSelectKey, when the key dialog of KeySelectionModal succeeds; the modal is
\* rendered while hasApiKey is false
handleSelectKey ==
    /\ ~hasApiKey
    /\ hasApiKey' = TRUE
    /\ error' = NULL
    /\ Ran("selectKey")
    /\ UNCHANGED <<params, loading, imageHistory, historyIndex, library, ops, now,
                   videoCalls, everInHistory>>

(* --------------------------- specification ----------------------------- *)
Next ==
    \/ Tick
    \/ \E g \in GenInputs : handleAutoGenerate(g)
    \/ \E k \in Slots, loc \in Locations : LocationResolve(k, loc)
    \/ \E k \in Slots, r \in ResearchResults : GenerateResearchResolve(k, r)
    \/ \E k \in Slots, d \in Images : GenerateImageResolve(k, d)
    \/ \E p \in EditPrompts : handleEdit(p)
    \/ \E k \in Slots, d \in Images : EditResolve(k, d)
    \/ handleVerify
    \/ \E k \in Slots, o \in VerifyOutcomes : VerifyResolve(k, o)
    \/ handleAnimate
    \/ \E k \in Slots : AnimateResolve(k)
    \/ handleRefreshNews
    \/ \E k \in Slots, r \in ResearchResults : RefreshResolve(k, r)
    \/ \E k \in Slots, m \in GatewayErrors : Reject(k, m)
    \/ \E i \in 1..Len(savedImages) : restoreImage(savedImages[i])
    \/ handleSelectKey

Spec == Init /\ [][Next]_vars

(* ------------------ the gateway: services/geminiService.ts ------------- *)
\* lines of a research response text
MaxLines == 3
\* grounding chunks of a research response
MaxChunks == 2
\* getVideosOperation calls of one generateCinematicSummary call: the remote operation
\* has completed by the last of them
MaxPolls == 2

getLevelInstruction(level) ==
    CASE level = "Elementary" ->
           "Target Audience: Elementary School (Ages 6-10). Style: Bright, simple, fun. Use large clear icons and very minimal text labels."
      [] level = "High School" ->
           "Target Audience: High School. Style: Standard Textbook. Clean lines, clear labels, accurate maps or diagrams. Avoid cartoony elements."
      [] level = "College" ->
           "Target Audience: University. Style: Academic Journal. High detail, data-rich, precise cross-sections or complex schematics."
      [] level = "Expert" ->
           "Target Audience: Industry Expert. Style: Technical Blueprint/Schematic. Extremely dense detail, monochrome or technical coloring, precise annotations."
      [] OTHER -> "Target Audience: General Public. Style: Clear and engaging."

getStyleInstruction(style) ==
    CASE style = "Minimalist" ->
           "Aesthetic: Bauhaus Minimalist. Flat vector art, limited color palette (2-3 colors), reliance on negative space and simple geometric shapes."
      [] style = "Cartoon" ->
           "Aesthetic: Educational Comic. Vibrant colors, thick outlines, expressive cel-shaded style."
      [] OTHER -> "Aesthetic: High-quality digital scientific illustration. Clean, modern, highly detailed."

\* arguments of researchTopicForPrompt that reach the result: <<topic, level, style>>
ResearchArgs == { <<"Photosynthesis", "Elementary", "Cartoon">>,
                  <<"Photosynthesis", "College", "Default">> }

\* a line of response.text.  label: the section label the line starts with, in any of
\* the spellings the patterns accept ("" : none); bullet: the line starts with "-";
\* body: the rest of the line without surrounding blanks
TextLines ==
    [label : {"FACTS", "IMAGE_PROMPT"}, bullet : {FALSE}, body : {"", "a"}]
      \cup [label : {""}, bullet : BOOLEAN, body : {"", "a"}]

ResponseTexts == UNION {[1..n -> TextLines] : n \in 0..MaxLines}

\* a grounding chunk: its web or its maps part, with uri and title ("" : missing)
Chunks ==
    [part : {"web", "maps"}, uri : {"u1", "u2"}, title : {"t1", "t2"}]
      \cup { [part |-> "web", uri |-> "u1", title |-> ""],
             [part |-> "web", uri |-> "", title |-> "t1"] }

GroundingChunks == UNION {[1..n -> Chunks] : n \in 0..MaxChunks}

IsFactsLabel(l) == l.label = "FACTS"
IsPromptLabel(l) == l.label = "IMAGE_PROMPT"
\* a line that \s* runs over
IsBlank(l) == l.label = "" /\ ~l.bullet /\ l.body = ""
NotBlank(l) == ~IsBlank(l)

\* whether a line is what a pattern looks for
Found(l, pattern) ==
    CASE pattern = "FACTS" -> IsFactsLabel(l)
      [] pattern = "IMAGE_PROMPT" -> IsPromptLabel(l)
      [] OTHER -> NotBlank(l)

\* index of the first line of s from position i on that the pattern looks for,
\* Len(s) + 1 if none
FirstFrom(s, i, pattern) ==
    IF \E j \in i..Len(s) : Found(s[j], pattern)
    THEN CHOOSE j \in i..Len(s) :
             Found(s[j], pattern) /\ \A h \in i..(j - 1) : ~Found(s[h], pattern)
    ELSE Len(s) + 1

\* a line as written
LineText(l) ==
    IF l.label # "" THEN l.label \o ":" \o (IF l.body # "" THEN " " \o l.body ELSE "")
    ELSE IF l.bullet THEN "-" \o (IF l.body # "" THEN " " \o l.body ELSE "")
    ELSE l.body

\* f.replace(/^-\s*/, '').trim() on a line
FactOf(l) == IF l.label # "" THEN LineText(l) ELSE l.body

NonEmpty(str) == str # ""

\* Array.prototype.slice(0, n)
Slice0(s, n) == SubSeq(s, 1, IF Len(s) < n THEN Len(s) ELSE n)

\* the facts researchTopicForPrompt extracts from the text: the FACTS pattern finds the
\* first FACTS label at the start of a line, \s* runs over the blanks and line ends
\* after it, and the group extends to the next line end followed by an IMAGE_PROMPT
\* label, or to the end of the text
FactsOf(text) ==
    LET f == FirstFrom(text, 1, "FACTS")
    IN IF f > Len(text) THEN <<>>
       ELSE LET s == IF text[f].body # "" THEN f ELSE FirstFrom(text, f + 1, "\\S")
                e == FirstFrom(text, s + 1, "IMAGE_PROMPT")
                captured == [i \in 1..(e - s) |->
                               IF s + i - 1 = f THEN text[f].body ELSE FactOf(text[s + i - 1])]
            IN Slice0(SelectSeq(captured, NonEmpty), 5)

\* String.prototype.trim on a sequence of lines: blank leading and trailing lines go
RECURSIVE TrimLines(_)
TrimLines(ls) ==
    IF ls = <<>> THEN <<>>
    ELSE IF Head(ls) = "" THEN TrimLines(Tail(ls))
    ELSE IF ls[Len(ls)] = "" THEN TrimLines(SubSeq(ls, 1, Len(ls) - 1))
    ELSE ls

RECURSIVE JoinLines(_)
JoinLines(ls) ==
    IF ls = <<>> THEN ""
    ELSE IF Len(ls) = 1 THEN ls[1]
    ELSE ls[1] \o "\n" \o JoinLines(Tail(ls))

\* variant of FallbackPrompt: the style instruction is left out
FallbackPrompt_NoStyle(t, levelInstr, styleInstr) ==
    "Create a detailed infographic about " \o t \o ". " \o levelInstr

\* `Create a detailed infographic about ${topic}. ${levelInstr} ${styleInstr}`
FallbackPrompt(t, levelInstr, styleInstr) ==
    "Create a detailed infographic about " \o t \o ". " \o levelInstr \o " " \o styleInstr

\* the image prompt researchTopicForPrompt extracts: what follows the first
\* IMAGE_PROMPT label up to the end of the text, trimmed, or the fallback
ImagePromptOf(text, t, levelInstr, styleInstr) ==
    LET p == FirstFrom(text, 1, "IMAGE_PROMPT")
    IN IF p > Len(text) THEN FallbackPrompt(t, levelInstr, styleInstr)
       ELSE JoinLines(TrimLines([i \in 1..(Len(text) - p + 1) |->
                                   IF i = 1 THEN text[p].body ELSE LineText(text[p + i - 1])]))

\* the items pushed to searchResults, in the order of the chunks
RECURSIVE PushedItems(_)
PushedItems(chunks) ==
    IF chunks = <<>> THEN <<>>
    ELSE LET chunk == Head(chunks)
         IN (IF chunk.uri # "" /\ chunk.title # ""
             THEN <<[title |-> chunk.title, url |-> chunk.uri, isMap |-> chunk.part = "maps"]>>
             ELSE <<>>) \o PushedItems(Tail(chunks))

\* variant of MapSet: an entry that is already there is kept
MapSet_KeepsFirst(entries, item) ==
    IF \E i \in 1..Len(entries) : entries[i].url = item.url
    THEN entries
    ELSE Append(entries, item)

\* Map.prototype.set(item.url, item) on the entries of a Map in insertion order: the
\* value of a key that is already there is replaced where it stands
MapSet(entries, item) ==
    IF \E i \in 1..Len(entries) : entries[i].url = item.url
    THEN [i \in 1..Len(entries) |-> IF entries[i].url = item.url THEN item ELSE entries[i]]
    ELSE Append(entries, item)

\* Array.from(new Map(items.map(item => [item.url, item])).values())
RECURSIVE MapValues(_, _)
MapValues(items, entries) ==
    IF items = <<>> THEN entries
    ELSE MapValues(Tail(items), MapSet(entries, Head(items)))

UniqueResults(searchResults) == MapValues(searchResults, <<>>)

\* what researchTopicForPrompt returns for a response
ResearchResultOf(req, text, chunks) ==
    [imagePrompt |-> ImagePromptOf(text, req.topic, getLevelInstruction(req.level),
                                   getStyleInstruction(req.style)),
     facts |-> FactsOf(text),
     searchResults |-> UniqueResults(PushedItems(chunks))]

\* response.text of the vision model, and JSON.parse of it
VerifyTexts ==
    { "", "{}", "{\"score\":90,\"isAccurate\":true}",
      "Here is the JSON: {\"score\":90,\"isAccurate\":true}", "The infographic looks accurate." }

JSONParse(text) ==
    CASE text = "{}" -> [ok |-> TRUE, value |-> [score |-> Undefined, isAccurate |-> Undefined]]
      [] text = "{\"score\":90,\"isAccurate\":true}" ->
           [ok |-> TRUE, value |-> [score |-> Some(90), isAccurate |-> Some(TRUE)]]
      [] OTHER -> [ok |-> FALSE, message |-> "Unexpected token"]

\* researchTopicForPrompt(topic, level, style, language, userLocation) up to its await
researchTopicForPrompt(a) ==
    /\ request.fn = "none"
    /\ request' = [fn |-> "research", topic |-> a[1], level |-> a[2], style |-> a[3]]
    /\ UNCHANGED <<response, returned, besidesGateway>>

\* ai.models.generateContent resolves inside researchTopicForPrompt
ResearchResponds ==
    /\ request.fn = "research"
    /\ returned.kind = "pending"
    /\ \E text \in ResponseTexts, chunks \in GroundingChunks :
          /\ response' = Some([text |-> text, chunks |-> chunks])
          /\ returned' = [kind |-> "value", val |-> ResearchResultOf(request, text, chunks)]
    /\ UNCHANGED <<request, besidesGateway>>

\* verifyInfographicAccuracy(imageBase64, facts) up to its await
verifyInfographicAccuracy(imageBase64, facts) ==
    /\ request.fn = "none"
    /\ request' = [fn |-> "verify", imageBase64 |-> imageBase64, facts |-> facts]
    /\ UNCHANGED <<response, returned, besidesGateway>>

\* ai.models.generateContent resolves inside verifyInfographicAccuracy
VerifyResponds(text) ==
    /\ request.fn = "verify"
    /\ returned.kind = "pending"
    /\ response' = Some([text |-> text])
    /\ LET parsed == JSONParse(IF text # "" THEN text ELSE "{}")
       IN returned' = IF parsed.ok
                      THEN [kind |-> "value",
                            val |-> [score |-> parsed.value.score,
                                     isAccurate |-> parsed.value.isAccurate,
                                     timestamp |-> now]]
                      ELSE [kind |-> "threw", message |-> parsed.message]
    /\ UNCHANGED <<request, besidesGateway>>

\* ai.models.generateContent rejects: the catch block logs and throws the error again
RemoteRejects(m) ==
    /\ request.fn \in {"research", "verify"}
    /\ returned.kind = "pending"
    /\ returned' = [kind |-> "threw", message |-> m]
    /\ UNCHANGED <<request, response, besidesGateway>>

\* the caller has taken the result; the next call starts from scratch
CallSettles ==
    /\ returned.kind # "pending"
    /\ request' = [fn |-> "none"]
    /\ response' = Undefined
    /\ returned' = [kind |-> "pending"]
    /\ UNCHANGED besidesGateway

GatewayNext ==
    \/ \E a \in ResearchArgs : researchTopicForPrompt(a)
    \/ ResearchResponds
    \/ \E d \in Images : verifyInfographicAccuracy(d, <<"f1">>)
    \/ \E text \in VerifyTexts : VerifyResponds(text)
    \/ \E m \in GatewayErrors : RemoteRejects(m)
    \/ CallSettles

GatewaySpec == Init /\ [][GatewayNext]_vars

(* ------------- geminiService.ts: generateCinematicSummary ------------- *)
\* what generateVideos and getVideosOperation resolve with: done, and the uri of the
\* first generated video ("" : none, as when the operation ended in an error)
VideoLinks == {"", "uri1", "uri2"}
Operations ==
    [done : {TRUE}, link : VideoLinks] \cup [done : {FALSE}, link : {""}]

VideoTopics == {"Photosynthesis", "Volcanoes"}

\* URL.createObjectURL(blob) of what the link served
ObjectURL(link) == [blobOf |-> link]

\* variant of AfterOperation: the loop condition is not tested
AfterOperation_NoLoop(req, operation) ==
    IF operation.link = ""
    THEN [request |-> req,
          returned |-> [kind |-> "threw",
                        message |-> "Video generation failed to return a link."]]
    ELSE [request |-> [req EXCEPT !.stage = "fetch"], returned |-> [kind |-> "pending"]]

\* generateCinematicSummary from the test of the loop on, with the operation it holds:
\* while (!operation.done) wait; then the link is read and fetched, or the call throws
AfterOperation(req, operation) ==
    IF ~operation.done
    THEN [request |-> [req EXCEPT !.stage = "timer"], returned |-> [kind |-> "pending"]]
    ELSE IF operation.link = ""
    THEN [request |-> req,
          returned |-> [kind |-> "threw",
                        message |-> "Video generation failed to return a link."]]
    ELSE [request |-> [req EXCEPT !.stage = "fetch"], returned |-> [kind |-> "pending"]]

\* generateCinematicSummary(topic, imageBase64) up to await generateVideos
generateCinematicSummary(t, imageBase64) ==
    /\ request.fn = "none"
    /\ request' = [fn |-> "video", topic |-> t, imageBase64 |-> imageBase64,
                   stage |-> "generateVideos", polls |-> 0]
    /\ UNCHANGED <<response, returned, besidesGateway>>

\* ai.models.generateVideos resolves with an operation
GenerateVideosResolves(operation) ==
    /\ request.fn = "video"
    /\ request.stage = "generateVideos"
    /\ returned.kind = "pending"
    /\ response' = Some(operation)
    /\ request' = AfterOperation(request, operation).request
    /\ returned' = AfterOperation(request, operation).returned
    /\ UNCHANGED besidesGateway

\* the 10 second timer of the loop fires: getVideosOperation is called
PollTimerFires ==
    /\ request.fn = "video"
    /\ request.stage = "timer"
    /\ returned.kind = "pending"
    /\ request' = [request EXCEPT !.stage = "getVideosOperation", !.polls = @ + 1]
    /\ UNCHANGED <<response, returned, besidesGateway>>

\* ai.operations.getVideosOperation resolves with the operation as it is now
GetVideosOperationResolves(operation) ==
    /\ request.fn = "video"
    /\ request.stage = "getVideosOperation"
    /\ returned.kind = "pending"
    /\ request.polls >= MaxPolls => operation.done
    /\ response' = Some(operation)
    /\ request' = AfterOperation(request, operation).request
    /\ returned' = AfterOperation(request, operation).returned
    /\ UNCHANGED besidesGateway

\* fetch of the download link resolves
FetchResolves ==
    /\ request.fn = "video"
    /\ request.stage = "fetch"
    /\ returned.kind = "pending"
    /\ request' = [request EXCEPT !.stage = "blob"]
    /\ UNCHANGED <<response, returned, besidesGateway>>

\* response.blob() resolves: the object URL is returned
BlobResolves ==
    /\ request.fn = "video"
    /\ request.stage = "blob"
    /\ returned.kind = "pending"
    /\ returned' = [kind |-> "value", val |-> ObjectURL(response.val.link)]
    /\ UNCHANGED <<request, response, besidesGateway>>

\* a remote call of generateCinematicSummary rejects: the catch block logs and throws
\* the error again
VideoCallRejects(m) ==
    /\ request.fn = "video"
    /\ request.stage # "timer"
    /\ returned.kind = "pending"
    /\ returned' = [kind |-> "threw", message |-> m]
    /\ UNCHANGED <<request, response, besidesGateway>>

VideoNext ==
    \/ \E t \in VideoTopics, d \in Images : generateCinematicSummary(t, d)
    \/ \E operation \in Operations : GenerateVideosResolves(operation)
    \/ PollTimerFires
    \/ \E operation \in Operations : GetVideosOperationResolves(operation)
    \/ FetchResolves
    \/ BlobResolves
    \/ \E m \in GatewayErrors : VideoCallRejects(m)
    \/ CallSettles

\* every remote call settles and the timer fires
VideoFairness ==
    /\ WF_vars(\E operation \in Operations : GenerateVideosResolves(operation))
    /\ WF_vars(PollTimerFires)
    /\ WF_vars(\E operation \in Operations : GetVideosOperationResolves(operation))
    /\ WF_vars(FetchResolves)
    /\ WF_vars(BlobResolves)

VideoSpec == Init /\ [][VideoNext]_vars /\ VideoFairness

(* ------------------ the artifact store: services/db.ts ----------------- *)
\* the artifacts handed to the store: for every key, with either image
StoreImages ==
    {[SavedChart EXCEPT !.id = StoreKeys[i], !.data = d] : i \in 1..Len(StoreKeys), d \in Images}

StoreSlots == 1..MaxStoreOps

HasFreeStoreSlot == \E k \in StoreSlots : storeOps[k].kind = "idle"
FreeStoreSlot ==
    CHOOSE k \in StoreSlots :
        storeOps[k].kind = "idle" /\ \A j \in StoreSlots : storeOps[j].kind = "idle" => k <= j

KeyIndex(id) == CHOOSE i \in 1..Len(StoreKeys) : StoreKeys[i] = id

\* variant of StorePut: the record is added next to one of the same key
StorePut_KeepsOld(records, image) == records \cup {image}

\* variant of StorePut: a record whose key is already in the store is not replaced
StorePut_AddOnly(records, image) ==
    IF \E r \in records : r.id = image.id THEN records ELSE records \cup {image}

\* IDBObjectStore.put(image) on a store with keyPath 'id'
StorePut(records, image) == {r \in records : r.id # image.id} \cup {image}

\* IDBObjectStore.delete(id)
StoreDelete(records, id) == {r \in records : r.id # id}

\* IDBObjectStore.getAll(): the records in key order
RECURSIVE StoreGetAllFrom(_, _)
StoreGetAllFrom(records, i) ==
    IF i > Len(StoreKeys) THEN <<>>
    ELSE (IF \E r \in records : r.id = StoreKeys[i]
          THEN <<CHOOSE r \in records : r.id = StoreKeys[i]>>
          ELSE <<>>) \o StoreGetAllFrom(records, i + 1)

StoreGetAll(records) == StoreGetAllFrom(records, 1)

\* saveImageToDB(image) up to indexedDB.open
saveImageToDB(image) ==
    /\ HasFreeStoreSlot
    /\ storeOps' = [storeOps EXCEPT ![FreeStoreSlot] =
                      [kind |-> "put", arg |-> image, stage |-> "open"]]
    /\ UNCHANGED <<db, written, besidesStore>>

\* removeImageFromDB(id) up to indexedDB.open
removeImageFromDB(id) ==
    /\ HasFreeStoreSlot
    /\ storeOps' = [storeOps EXCEPT ![FreeStoreSlot] =
                      [kind |-> "delete", arg |-> id, stage |-> "open"]]
    /\ UNCHANGED <<db, written, besidesStore>>

\* getAllSavedImages() up to indexedDB.open
getAllSavedImages ==
    /\ HasFreeStoreSlot
    /\ storeOps' = [storeOps EXCEPT ![FreeStoreSlot] =
                      [kind |-> "getAll", arg |-> "none", stage |-> "open"]]
    /\ UNCHANGED <<db, written, besidesStore>>

\* the database opens, the transaction of call k runs and its request succeeds: the
\* promise is resolved; what getAllSavedImages resolved with stays until it is taken,
\* together with the writes the store had run by then
RequestSucceeds(k) ==
    /\ storeOps[k].kind \in {"put", "delete", "getAll"}
    /\ storeOps[k].stage = "open"
    /\ db' = CASE storeOps[k].kind = "put" -> StorePut(db, storeOps[k].arg)
               [] storeOps[k].kind = "delete" -> StoreDelete(db, storeOps[k].arg)
               [] OTHER -> db
    /\ written' =
         CASE storeOps[k].kind = "put" ->
                [written EXCEPT ![KeyIndex(storeOps[k].arg.id)] =
                                  [op |-> "put", image |-> storeOps[k].arg]]
           [] storeOps[k].kind = "delete" ->
                [written EXCEPT ![KeyIndex(storeOps[k].arg)] = [op |-> "delete"]]
           [] OTHER -> written
    /\ storeOps' = [storeOps EXCEPT ![k] =
                      IF storeOps[k].kind = "getAll"
                      THEN [kind |-> "getAll", arg |-> "none", stage |-> "resolved",
                            result |-> StoreGetAll(db), seen |-> written]
                      ELSE Idle]
    /\ UNCHANGED besidesStore

\* the database does not open or the request fails: the promise is rejected and
\* the store is as it was
RequestFails(k) ==
    /\ storeOps[k].kind \in {"put", "delete", "getAll"}
    /\ storeOps[k].stage = "open"
    /\ storeOps' = [storeOps EXCEPT ![k] = Idle]
    /\ UNCHANGED <<db, written, besidesStore>>

\* the caller has taken the records getAllSavedImages resolved with
StoreCallTaken(k) ==
    /\ storeOps[k].kind = "getAll"
    /\ storeOps[k].stage = "resolved"
    /\ storeOps' = [storeOps EXCEPT ![k] = Idle]
    /\ UNCHANGED <<db, written, besidesStore>>

StoreNext ==
    \/ \E image \in StoreImages : saveImageToDB(image)
    \/ \E i \in 1..Len(StoreKeys) : removeImageFromDB(StoreKeys[i])
    \/ getAllSavedImages
    \/ \E k \in StoreSlots : RequestSucceeds(k)
    \/ \E k \in StoreSlots : RequestFails(k)
    \/ \E k \in StoreSlots : StoreCallTaken(k)

StoreSpec == Init /\ [][StoreNext]_vars

(* ------------------- the saved library: App.tsx over db.ts ------------- *)
\* the kinds of invocation that await a call of db.ts
LibraryKinds == {"toggleSave", "deleteFromLibrary"}

\* the research result of the generations made next to the library
LibraryResearch == CHOOSE r \in ResearchResults : r.facts # <<>>

\* handleToggleSave up to its await: the current artifact and the saved list are
\* the ones of the render the handler was made in
handleToggleSave ==
    /\ IF Len(imageHistory) = 0 \/ ~InRange(imageHistory, historyIndex)
       THEN /\ Ran("toggleDropped")
            /\ UNCHANGED ops
       ELSE LET currentImage == At(imageHistory, historyIndex)
                isSaved == \E i \in 1..Len(savedImages) : savedImages[i].id = currentImage.id
            IN /\ HasFreeSlot
               /\ ops' = [ops EXCEPT ![FreeSlot] =
                            [kind |-> "toggleSave",
                             stage |-> IF isSaved THEN "delete" ELSE "put",
                             arg |-> currentImage, saved |-> savedImages]]
               /\ Ran("toggleSave")
    /\ UNCHANGED <<params, loading, error, imageHistory, historyIndex, hasApiKey,
                   library, now, videoCalls, everInHistory>>

\* handleDeleteFromLibrary(id, e) up to its await
handleDeleteFromLibrary(id) ==
    /\ HasFreeSlot
    /\ ops' = [ops EXCEPT ![FreeSlot] =
                 [kind |-> "deleteFromLibrary", stage |-> "delete",
                  arg |-> [id |-> id], saved |-> savedImages]]
    /\ Ran("deleteFromLibrary")
    /\ UNCHANGED <<params, loading, error, imageHistory, historyIndex, hasApiKey,
                   library, now, videoCalls, everInHistory>>

\* the store call of invocation k resolves (the record is put or deleted) and the
\* handler sets the saved list from the list it captured
LibraryCallResolves(k) ==
    /\ ops[k].kind \in LibraryKinds
    /\ IF ops[k].stage = "put"
       THEN /\ db' = StorePut(db, ops[k].arg)
            /\ savedImages' = Append(ops[k].saved, ops[k].arg)
       ELSE /\ db' = StoreDelete(db, ops[k].arg.id)
            /\ savedImages' = SelectSeq(ops[k].saved, LAMBDA img : img.id # ops[k].arg.id)
    /\ ops' = [ops EXCEPT ![k] = Idle]
    /\ RanWith("libraryOk", ops[k].kind)
    /\ UNCHANGED <<params, loading, error, imageHistory, historyIndex, hasApiKey,
                   now, videoCalls, everInHistory>>

\* the store call of invocation k rejects: handleToggleSave reports it,
\* handleDeleteFromLibrary swallows it
LibraryCallRejects(k) ==
    /\ ops[k].kind \in LibraryKinds
    /\ error' = IF ops[k].kind = "toggleSave" THEN "Library update failed." ELSE error
    /\ ops' = [ops EXCEPT ![k] = Idle]
    /\ RanWith("libraryFailed", ops[k].kind)
    /\ UNCHANGED <<params, loading, imageHistory, historyIndex, hasApiKey,
                   library, now, videoCalls, everInHistory>>

\* the library next to one generation at a time: the generated artifact is the
\* second one the library can hold
LibraryNext ==
    \/ \E g \in GenInputs : handleAutoGenerate(g)
    \/ \E k \in Slots : LocationResolve(k, "undefined")
    \/ \E k \in Slots : GenerateResearchResolve(k, LibraryResearch)
    \/ \E k \in Slots : GenerateImageResolve(k, "img2")
    \/ \E i \in 1..Len(savedImages) : restoreImage(savedImages[i])
    \/ handleToggleSave
    \/ \E i \in 1..Len(savedImages) : handleDeleteFromLibrary(savedImages[i].id)
    \/ \E k \in Slots : LibraryCallResolves(k)
    \/ \E k \in Slots : LibraryCallRejects(k)

LibrarySpec == Init /\ [][LibraryNext]_vars

(* ------------- the live discussion channel: hooks/useLiveSession.ts ---- *)
Connects == 1..MaxConnects

\* the images a discussion may be opened on
LiveImages == {"img1"}

\* an inbound LiveServerMessage: audio is the duration of the audio part (0: no audio
\* part, -1: a part decodeAudioData throws on), interrupted is serverContent.interrupted
InboundMessages == [audio : {-1, 0, 1, 2}, interrupted : BOOLEAN]

\* messages of the errors getUserMedia may reject with
MicErrors == {"Permission denied"}

\* variant of Max: the first argument, whatever the second
Max_First(a, b) == a

Max(a, b) == IF a >= b THEN a ELSE b

\* source.stop() on every source of a queue: of the sources the context is to play,
\* those of the queue are taken away
StopAll(sources, queue) ==
    sources \ {queue[q] : q \in 1..Len(queue)}

\* promise.then(session => session.sendRealtimeInput(media)) on the session promise of
\* connect call n: the callback waits for the promise, or runs at once after it
ThenSend(c, n, media) ==
    IF c[n].resolved
    THEN [c EXCEPT ![n].sent = Append(@, media)]
    ELSE [c EXCEPT ![n].reactions = Append(@, media)]

\* variant of Released: the contexts are not closed
Released_ContextsOpen(c) ==
    [n \in Connects |->
        [c[n] EXCEPT !.stream = IF mediaStream = n /\ @ = "live" THEN "stopped" ELSE @,
                     !.proc = IF processor = n /\ @ = "on" THEN "off" ELSE @]]

\* what cleanup() does to the objects the refs point to: the tracks of the stream are
\* stopped, the processor is disconnected, the contexts are closed
Released(c) ==
    [n \in Connects |->
        [c[n] EXCEPT !.stream = IF mediaStream = n /\ @ = "live" THEN "stopped" ELSE @,
                     !.proc = IF processor = n /\ @ = "on" THEN "off" ELSE @,
                     !.ctx = IF (inputContext = n \/ outputContext = n) /\ @ = "open"
                             THEN "closed" ELSE @]]

\* variant of cleanup: the reference to the session is kept
cleanup_KeepsSession(c) ==
    /\ conn' = Released(c)
    /\ mediaStream' = NoRef
    /\ sourceNode' = NoRef
    /\ processor' = NoRef
    /\ inputContext' = NoRef
    /\ outputContext' = NoRef
    /\ bufferSources' = StopAll(bufferSources, audioQueue)
    /\ audioQueue' = <<>>
    /\ UNCHANGED activeSession
    /\ isConnected' = FALSE
    /\ isConnecting' = FALSE
    /\ volume' = 0

\* cleanup(), run on the objects of c
cleanup(c) ==
    /\ conn' = Released(c)
    /\ mediaStream' = NoRef
    /\ sourceNode' = NoRef
    /\ processor' = NoRef
    /\ inputContext' = NoRef
    /\ outputContext' = NoRef
    /\ bufferSources' = StopAll(bufferSources, audioQueue)
    /\ audioQueue' = <<>>
    /\ activeSession' = NoRef
    /\ isConnected' = FALSE
    /\ isConnecting' = FALSE
    /\ volume' = 0

\* the channel holds a microphone stream, a session and its two contexts
Holding ==
    /\ mediaStream # NoRef
    /\ activeSession # NoRef
    /\ inputContext # NoRef
    /\ outputContext # NoRef

\* connect(imageBase64) up to await getUserMedia
connect(imageBase64) ==
    /\ IF isConnecting \/ isConnected
       THEN UNCHANGED <<liveState, liveRefs, nextStartTime, conn, playTime>>
       ELSE /\ \E n \in Connects : conn[n].stage = "idle"
            /\ LET n == CHOOSE n \in Connects :
                          conn[n].stage = "idle" /\ \A m \in Connects : conn[m].stage = "idle" => n <= m
               IN /\ isConnecting' = TRUE
                  /\ liveError' = NULL
                  /\ inputContext' = n
                  /\ outputContext' = n
                  /\ playTime' = 0
                  /\ nextStartTime' = 0
                  /\ conn' = [conn EXCEPT ![n].stage = "mic", ![n].image = imageBase64,
                                          ![n].ctx = "open"]
            /\ UNCHANGED <<isConnected, volume, mediaStream, sourceNode, processor,
                           activeSession>>
    /\ liveLast' = [act |-> "other"]
    /\ disconnected' = FALSE
    /\ UNCHANGED <<audioQueue, bufferSources, frames, inbound, besidesLive>>

\* getUserMedia resolves inside connect call n: the rest of the try block
MicGranted(n) ==
    /\ conn[n].stage = "mic"
    /\ mediaStream' = n
    /\ activeSession' = n
    /\ IF inputContext # NoRef
       THEN /\ sourceNode' = n
            /\ processor' = n
            /\ conn' = [conn EXCEPT ![n].stage = "done", ![n].stream = "live",
                                    ![n].socket = "connecting", ![n].proc = "on",
                                    ![n].procCtx = inputContext]
       ELSE /\ conn' = [conn EXCEPT ![n].stage = "done", ![n].stream = "live",
                                    ![n].socket = "connecting"]
            /\ UNCHANGED <<sourceNode, processor>>
    /\ liveLast' = [act |-> "other"]
    /\ UNCHANGED <<liveState, inputContext, outputContext, playback, playTime, frames,
                   inbound, disconnected,
                   besidesLive>>

\* getUserMedia rejects inside connect call n: the catch block
MicDenied(n, m) ==
    /\ conn[n].stage = "mic"
    /\ liveError' = "Failed to access microphone or connect."
    /\ cleanup([conn EXCEPT ![n].stage = "done"])
    /\ liveLast' = [act |-> "denied", held |-> Holding, call |-> n]
    /\ UNCHANGED <<nextStartTime, playTime, frames, inbound, disconnected,
                   besidesLive>>

\* processor.onaudioprocess of connect call n: the node is connected and its context runs
onaudioprocess(n) ==
    /\ conn[n].proc = "on"
    /\ conn[conn[n].procCtx].ctx = "open"
    /\ frames < MaxFrames
    /\ frames' = frames + 1
    /\ volume' = 1
    /\ conn' = ThenSend(conn, n, "audio")
    /\ liveLast' = [act |-> "other"]
    /\ UNCHANGED <<isConnected, isConnecting, liveError, liveRefs, playback, playTime,
                   inbound, disconnected,
                   besidesLive>>

\* callbacks.onopen of the session of connect call n
onopen(n) ==
    /\ conn[n].socket = "connecting"
    /\ isConnected' = TRUE
    /\ isConnecting' = FALSE
    /\ LET opened == [conn EXCEPT ![n].socket = "open"]
       IN conn' = IF activeSession # NoRef
                  THEN ThenSend(opened, activeSession, "image")
                  ELSE opened
    /\ liveLast' = [act |-> "other"]
    /\ UNCHANGED <<volume, liveError, liveRefs, playback, playTime, frames, inbound,
                   disconnected,
                   besidesLive>>

\* the promise of ai.live.connect resolves with the session, after the socket has
\* opened: the callbacks waiting for it run in the order they were attached
SessionResolves(n) ==
    /\ conn[n].socket = "open"
    /\ ~conn[n].resolved
    /\ conn' = [conn EXCEPT ![n].resolved = TRUE, ![n].sent = @ \o conn[n].reactions,
                            ![n].reactions = <<>>]
    /\ liveLast' = [act |-> "other"]
    /\ UNCHANGED <<liveState, liveRefs, playback, playTime, frames, inbound, disconnected,
                   besidesLive>>

\* variant of Interrupted: the scheduling clock is left where it was
Interrupted_KeepsClock(sources, queue, next) ==
    [sources |-> StopAll(sources, queue), queue |-> <<>>, next |-> next]

\* the branch of onmessage for serverContent.interrupted
Interrupted(sources, queue, next) ==
    [sources |-> StopAll(sources, queue), queue |-> <<>>,
     next |-> IF outputContext # NoRef THEN playTime ELSE next]

\* callbacks.onmessage of the session of connect call n.  decodeAudioData awaits
\* nothing, so the code after `await decodeAudioData` runs before any other callback
onmessage(n, message) ==
    /\ conn[n].socket = "open"
    /\ inbound < MaxInbound
    /\ inbound' = inbound + 1
    /\ LET scheduled == message.audio > 0 /\ outputContext # NoRef
           startTime == Max(nextStartTime, playTime)
           source == [start |-> startTime, end |-> startTime + message.audio]
           sources1 == IF scheduled THEN bufferSources \cup {source} ELSE bufferSources
           queue1 == IF scheduled THEN Append(audioQueue, source) ELSE audioQueue
           next1 == IF scheduled THEN startTime + message.audio ELSE nextStartTime
           after == IF message.interrupted
                    THEN Interrupted(sources1, queue1, next1)
                    ELSE [sources |-> sources1, queue |-> queue1, next |-> next1]
       IN /\ bufferSources' = after.sources
          /\ audioQueue' = after.queue
          /\ nextStartTime' = after.next
    /\ liveLast' = IF message.interrupted
                   THEN [act |-> "interrupted",
                         queued |-> Len(audioQueue) + (IF message.audio > 0 /\ outputContext # NoRef
                                                       THEN 1 ELSE 0)]
                   ELSE [act |-> "other"]
    /\ UNCHANGED <<liveState, liveRefs, conn, playTime, frames, disconnected,
                   besidesLive>>

\* callbacks.onclose of the session of connect call n
onclose(n) ==
    /\ conn[n].socket \in {"connecting", "open"}
    /\ cleanup([conn EXCEPT ![n].socket = "closed"])
    /\ liveLast' = [act |-> "close", held |-> Holding]
    /\ UNCHANGED <<liveError, nextStartTime, playTime, frames, inbound, disconnected,
                   besidesLive>>

\* callbacks.onerror of the session of connect call n
onerror(n) ==
    /\ conn[n].socket \in {"connecting", "open"}
    /\ liveError' = "Connection lost."
    /\ cleanup([conn EXCEPT ![n].socket = "closed"])
    /\ liveLast' = [act |-> "error", held |-> Holding]
    /\ UNCHANGED <<nextStartTime, playTime, frames, inbound, disconnected,
                   besidesLive>>

\* disconnect()
disconnect ==
    /\ cleanup(conn)
    /\ liveLast' = [act |-> "disconnect", held |-> Holding]
    /\ disconnected' = TRUE
    /\ UNCHANGED <<liveError, nextStartTime, playTime, frames, inbound, besidesLive>>

\* the clock of the output context advances
PlayTimeAdvances ==
    /\ outputContext # NoRef
    /\ playTime < MaxPlayTime
    /\ playTime' = playTime + 1
    /\ liveLast' = [act |-> "other"]
    /\ UNCHANGED <<liveState, liveRefs, playback, conn, frames, inbound, disconnected,
                   besidesLive>>

\* source.onended of a source that has played to its end
onended(source) ==
    /\ source \in bufferSources
    /\ source.end <= playTime
    /\ bufferSources' = bufferSources \ {source}
    /\ audioQueue' = SelectSeq(audioQueue, LAMBDA q : q # source)
    /\ liveLast' = [act |-> "other"]
    /\ UNCHANGED <<liveState, liveRefs, nextStartTime, conn, playTime, frames, inbound,
                   disconnected,
                   besidesLive>>

LiveNext ==
    \/ \E d \in LiveImages : connect(d)
    \/ \E n \in Connects : MicGranted(n)
    \/ \E n \in Connects, m \in MicErrors : MicDenied(n, m)
    \/ \E n \in Connects : onaudioprocess(n)
    \/ \E n \in Connects : onopen(n)
    \/ \E n \in Connects : SessionResolves(n)
    \/ \E n \in Connects, message \in InboundMessages : onmessage(n, message)
    \/ \E n \in Connects : onclose(n)
    \/ \E n \in Connects : onerror(n)
    \/ disconnect
    \/ PlayTimeAdvances
    \/ \E source \in bufferSources : onended(source)

LiveSpec == Init /\ [][LiveNext]_vars

(* ------------------------------ claims --------------------------------- *)

\* C1: at most one of Generate, Edit, Verify, Animate, RefreshContext has a gateway call
\* in flight, and no operation in flight was started by an intent invoked while
\* isLoading was true (such an intent is dropped).
C1_AtMostOneInFlight ==
    /\ Cardinality(InFlight) <= 1
    /\ \A k \in InFlight : ~ops[k].gated

\* C2: an Edit invoked while a Generate call is in flight (isLoading true) changes
\* nothing: neither its invocation nor the settling of anything it started changes
\* history, historyIndex or error.
C2_EditDuringGenerateIsNoop ==
    [][\A k \in Slots :
         LET invoked == /\ ops[k].kind = "idle" /\ ops'[k].kind = "edit"
                        /\ isLoading /\ \E j \in Slots : ops[j].kind = "generate"
             settled == /\ ops[k].kind = "edit" /\ ops'[k].kind = "idle"
                        /\ ops[k].gated /\ "generate" \in ops[k].during
         IN (invoked \/ settled) => UNCHANGED <<imageHistory, historyIndex, error>>]_vars

\* C3: session history is append-only: every artifact id that was ever in history is
\* still in history.
C3_AppendOnly == everInHistory \subseteq Ids(imageHistory)

\* C4: when history is non-empty, 0 <= historyIndex < length(history); and right after
\* a successful Generate or Edit, historyIndex is 0.
C4_IndexValid ==
    /\ Len(imageHistory) > 0 => InRange(imageHistory, historyIndex)
    /\ last.act \in {"generateOk", "editOk"} => historyIndex = 0

\* C5: every verification and every videoUri carried by an artifact of history was
\* returned by a gateway call whose input image was that artifact's current data.
C5_AttachmentsMatchData ==
    \A i \in 1..Len(imageHistory) :
        /\ imageHistory[i].verification.def =>
               imageHistory[i].verification.of = imageHistory[i].data
        /\ imageHistory[i].videoUri.def =>
               imageHistory[i].videoUri.of = imageHistory[i].data

\* C5 witness: an edit has just produced new image data from an artifact that carries
\* a verification and a video made in this session or before
C5_Witness ==
    /\ last.act = "editOk"
    /\ \E j \in 2..Len(imageHistory) :
          /\ imageHistory[j].verification.def
          /\ imageHistory[j].videoUri.def
          /\ imageHistory[j].data # imageHistory[1].data

\* C6: a successful Edit(instruction) prepends an artifact that copies originalTopic,
\* facts, level, style and language from the artifact the Edit was invoked on, has the
\* instruction as prompt, the edited image as data, an id and a timestamp taken from
\* the clock when the edit completes, and neither verification nor videoUri.
C6_EditBuildsArtifact ==
    [][\A k \in Slots :
         (ops[k].kind = "edit" /\ ops'[k].kind = "idle" /\ last'.act = "editOk") =>
            LET source == At(ops[k].hist, ops[k].idx)
                new == imageHistory'[1]
            IN /\ new.originalTopic = source.originalTopic
               /\ new.facts = source.facts
               /\ new.level = source.level
               /\ new.style = source.style
               /\ new.language = source.language
               /\ new.prompt = ops[k].arg[1]
               /\ new.data = last'.val
               /\ new.id = ToString(now)
               /\ new.timestamp = now
               /\ ~new.verification.def
               /\ ~new.videoUri.def]_vars

\* C6 witness: an edit has just completed on an artifact that had both a verification
\* and a video, and the new artifact is the newest entry
C6_Witness ==
    /\ last.act = "editOk"
    /\ Len(imageHistory) >= 2
    /\ imageHistory[1].prompt \in EditPrompts
    /\ imageHistory[1].data = last.val
    /\ imageHistory[2].verification.def
    /\ imageHistory[2].videoUri.def
    /\ imageHistory[2].originalTopic = imageHistory[1].originalTopic

\* C7: a successful Verify (respectively Animate) changes only the verification
\* (respectively videoUri) field of one history entry: length, order, historyIndex and
\* every other field of every entry are unchanged.
C7_InPlaceUpdateOnly ==
    [][(last'.act \in {"verifyOk", "animateOk"} /\ ops' # ops) =>
          /\ Len(imageHistory') = Len(imageHistory)
          /\ historyIndex' = historyIndex
          /\ \E p \in 1..Len(imageHistory) :
                \A i \in 1..Len(imageHistory) :
                    IF i # p THEN imageHistory'[i] = imageHistory[i]
                    ELSE IF last'.act = "verifyOk"
                    THEN [imageHistory'[i] EXCEPT !.verification = Undefined]
                           = [imageHistory[i] EXCEPT !.verification = Undefined]
                    ELSE [imageHistory'[i] EXCEPT !.videoUri = Undefined]
                           = [imageHistory[i] EXCEPT !.videoUri = Undefined]]_vars

\* C8: for any artifact at most one SynthesizeVideo call is issued, and a call is
\* issued only while the current artifact has no videoUri (once it is set, Animate is
\* a no-op).
C8_AnimateAtMostOnce ==
    /\ [](\A a \in DOMAIN videoCalls : videoCalls[a] <= 1)
    /\ [][videoCalls' # videoCalls =>
            ~At(imageHistory, historyIndex).videoUri.def]_vars

\* C9 as stated: when a gateway call of Generate, Edit, Verify or Animate fails,
\* history and historyIndex are what they were when the operation was invoked, and
\* error is set to a message.
C9_FailureRestoresInvocationState ==
    [][\A k \in Slots :
         (ops[k].kind \in {"generate", "edit", "verify", "animate"}
            /\ ops'[k].kind = "idle" /\ last'.act = "rejected") =>
            /\ imageHistory' = ops[k].hist
            /\ historyIndex' = ops[k].idx
            /\ error' \notin {NULL, ""}]_vars

\* C9 amended: when a gateway call of Generate, Edit, Verify or Animate fails, the
\* failing operation changes neither history nor historyIndex (no artifact is
\* inserted) and error is set to a message.
C9_FailureLeavesHistory ==
    [][\A k \in Slots :
         (ops[k].kind \in {"generate", "edit", "verify", "animate"}
            /\ ops'[k].kind = "idle" /\ last'.act = "rejected") =>
            /\ imageHistory' = imageHistory
            /\ historyIndex' = historyIndex
            /\ error' \notin {NULL, ""}]_vars

\* C9 witness: a gateway call has just failed with an error that carries no message;
\* the history is not empty and the session shows the default message
C9_Witness ==
    /\ last.act = "rejected"
    /\ last.val = ""
    /\ error = "An unexpected error occurred."
    /\ ~isLoading
    /\ Len(imageHistory) > 0

\* C10: isLoading is false (and loadingStep 0) whenever no operation is in flight, and
\* isLoading is true whenever an operation's gateway call is in flight.
C10_LoadingIffInFlight ==
    /\ InFlight = {} => (~isLoading /\ loadingStep = 0)
    /\ InFlight # {} => isLoading

\* C11: a successful Generate or Edit, whatever historyIndex it was invoked with, makes
\* history the new artifact followed by all entries of the previous history in their
\* previous order, and the new artifact is at index 0, which is the current index.
C11_PrependKeepsAll ==
    [][last'.act \in {"generateOk", "editOk"} =>
          /\ imageHistory' = <<imageHistory'[1]>> \o imageHistory
          /\ imageHistory'[1].data = last'.val
          /\ historyIndex' = 0]_vars

\* C11 witness: an edit invoked while an older entry was current (historyIndex > 0) has
\* just completed, and the entries that were in front of that entry are still there
C11_Witness ==
    /\ last.act = "editOk"
    /\ last.at > 0
    /\ Len(imageHistory) >= 3
    /\ imageHistory[1].data = last.val
    /\ historyIndex = 0

\* C12: a successful Generate(topic, level, style, language) adds exactly one artifact,
\* with prompt = topic, originalTopic = topic, the facts the research step returned,
\* level, style and language equal to the arguments, and neither verification nor
\* videoUri.
C12_GenerateBuildsArtifact ==
    [][\A k \in Slots :
         (ops[k].kind = "generate" /\ ops'[k].kind = "idle" /\ last'.act = "generateOk") =>
            LET new == imageHistory'[1]
            IN /\ Len(imageHistory') = Len(imageHistory) + 1
               /\ SubSeq(imageHistory', 2, Len(imageHistory')) = imageHistory
               /\ new.prompt = ops[k].arg[1]
               /\ new.originalTopic = ops[k].arg[1]
               /\ new.facts = Some(ops[k].res.val.facts)
               /\ new.level = ops[k].arg[2]
               /\ new.style = ops[k].arg[3]
               /\ new.language = ops[k].arg[4]
               /\ ~new.verification.def
               /\ ~new.videoUri.def]_vars

\* C12 witness: Generate("Photosynthesis", "Elementary", ...) has just completed after a
\* research step that returned three facts
C12_Witness ==
    /\ last.act = "generateOk"
    /\ imageHistory[1].prompt = "Photosynthesis"
    /\ imageHistory[1].level = "Elementary"
    /\ imageHistory[1].facts = Some(<<"f1", "f2", "f3">>)
    /\ ~imageHistory[1].verification.def
    /\ ~imageHistory[1].videoUri.def

\* C13: whenever Verify is invoked on an artifact without recorded facts (facts absent,
\* or present but empty as after a research response with no parsable facts), the fact
\* list passed to verifyInfographicAccuracy is not empty.
C13_VerifyFactsNonEmpty ==
    \A k \in Slots :
        ops[k].kind = "verify" =>
            LET currentImage == At(ops[k].hist, ops[k].idx)
            IN (~currentImage.facts.def \/ currentImage.facts.val = <<>>) =>
                   ops[k].arg # <<>>

\* C14: when an orchestrator operation fails, onAuthError is invoked (App clears
\* hasApiKey) and the access-denied message is set if and only if the error's message
\* is one of the auth/entitlement indicators; every other failure sets error to an
\* ordinary message (the error's own, or the default one), does not invoke onAuthError,
\* and starts no gateway call again.
C14_AuthClassification ==
    [][last'.act = "rejected" =>
          LET m == last'.val
              denied == "Access denied. Ensure you have a paid API key selected for these models."
          IN /\ IF m \in {"Requested entity was not found", "404", "403"}
                THEN error' = denied /\ hasApiKey' = FALSE
                ELSE /\ error' \notin {denied, NULL, ""}
                     /\ error' \in {m, "An unexpected error occurred."}
                     /\ hasApiKey' = hasApiKey
             /\ calls' = calls
             /\ InFlight' \subseteq InFlight /\ InFlight' # InFlight]_vars

\* C14 witness: a gateway call has just been rejected with a 403 while a key was
\* selected; the key is now deselected and the access-denied message is shown
C14_Witness ==
    /\ last.act = "rejected"
    /\ last.val = "403"
    /\ ~hasApiKey
    /\ error = "Access denied. Ensure you have a paid API key selected for these models."
    /\ ~isLoading

\* C15: verifyInfographicAccuracy never fails because the text of the model's response
\* cannot be parsed: for every unparsable text it returns the degraded result with
\* score 50 and isAccurate false, and a timestamp.
C15_UnparsableIsDegraded ==
    (request.fn = "verify" /\ response.def /\ response.val.text # ""
       /\ ~JSONParse(response.val.text).ok) =>
        /\ returned.kind = "value"
        /\ returned.val.score = Some(50)
        /\ returned.val.isAccurate = Some(FALSE)
        /\ returned.val.timestamp = now

\* a research call has returned for a response whose text has no IMAGE_PROMPT label
NoPromptSection ==
    /\ request.fn = "research"
    /\ response.def
    /\ \A i \in 1..Len(response.val.text) : response.val.text[i].label # "IMAGE_PROMPT"

\* the fallback prompt of the request being served
ExpectedFallback ==
    "Create a detailed infographic about " \o request.topic \o ". "
       \o getLevelInstruction(request.level) \o " " \o getStyleInstruction(request.style)

\* C16 as stated: for every research response text without IMAGE_PROMPT section,
\* researchTopicForPrompt returns normally with imagePrompt equal to the fallback built
\* from topic, level instruction and style instruction, and with facts equal to the
\* empty list.
C16_NoPromptSectionEmptyFacts ==
    NoPromptSection =>
        /\ returned.kind = "value"
        /\ returned.val.imagePrompt = ExpectedFallback
        /\ returned.val.facts = <<>>

\* C16 amended: for every research response text without IMAGE_PROMPT section,
\* researchTopicForPrompt returns normally with imagePrompt equal to the fallback; the
\* facts are still those of the FACTS section (at most 5, each the content of a line at
\* or after the FACTS label), and the list is empty exactly when the text has no FACTS
\* label or no line with content follows it.
C16_NoPromptSectionFallback ==
    NoPromptSection =>
        LET text == response.val.text
            facts == returned.val.facts
            labelled == {i \in 1..Len(text) : text[i].label = "FACTS"}
            content(i) == IF \A j \in labelled : i <= j THEN text[i].body
                          ELSE IF text[i].label # "" THEN LineText(text[i]) ELSE text[i].body
            after == {i \in 1..Len(text) : (\E j \in labelled : j <= i) /\ content(i) # ""}
        IN /\ returned.kind = "value"
           /\ returned.val.imagePrompt = ExpectedFallback
           /\ Len(facts) <= 5
           /\ \A n \in 1..Len(facts) : \E i \in after : facts[n] = content(i)
           /\ (facts = <<>>) <=> (after = {})

\* C16 witness: a response with a FACTS section and no IMAGE_PROMPT section has been
\* turned into the fallback prompt together with the facts of the section
C16_Witness ==
    /\ NoPromptSection
    /\ \E i \in 1..Len(response.val.text) : response.val.text[i].label = "FACTS"
    /\ returned.kind = "value"
    /\ returned.val.imagePrompt = ExpectedFallback
    /\ returned.val.facts # <<>>
    /\ request.level = "College"

\* C17: for every sequence of grounding chunks, searchResults has no two entries with
\* the same url, has an entry for every url of a chunk that carries both uri and title
\* (and for no other url), and the entry of a url that occurred several times is the
\* one of its last occurrence.
C17_DedupLastWins ==
    (request.fn = "research" /\ response.def) =>
        LET chunks == response.val.chunks
            results == returned.val.searchResults
            complete == {c \in 1..Len(chunks) : chunks[c].uri # "" /\ chunks[c].title # ""}
        IN /\ \A i, j \in 1..Len(results) : results[i].url = results[j].url => i = j
           /\ \A c \in complete : \E i \in 1..Len(results) : results[i].url = chunks[c].uri
           /\ \A i \in 1..Len(results) :
                 \E c \in complete :
                    /\ chunks[c].uri = results[i].url
                    /\ \A d \in complete : chunks[d].uri = chunks[c].uri => d <= c
                    /\ results[i].title = chunks[c].title
                    /\ results[i].isMap = (chunks[c].part = "maps")

\* C17 witness: two chunks with the same url, a web chunk and then a maps chunk with
\* another title, have become one entry, the later one
C17_Witness ==
    /\ request.fn = "research"
    /\ response.def
    /\ response.val.chunks = << [part |-> "web", uri |-> "u1", title |-> "t1"],
                                [part |-> "maps", uri |-> "u1", title |-> "t2"] >>
    /\ returned.kind = "value"
    /\ returned.val.searchResults = << [title |-> "t2", url |-> "u1", isMap |-> TRUE] >>

\* C18: whenever getAllSavedImages resolves, for every key: if the last write the
\* store ran on that key was a put of artifact a, the result has an entry with a's id
\* and data; if it was a delete, the result has no entry with that id.
C18_StoreRoundTrip ==
    \A k \in StoreSlots :
        (storeOps[k].kind = "getAll" /\ storeOps[k].stage = "resolved") =>
            \A i \in 1..Len(StoreKeys) :
                LET w == storeOps[k].seen[i]
                    result == storeOps[k].result
                IN /\ w.op = "put" =>
                         \E n \in 1..Len(result) :
                             result[n].id = w.image.id /\ result[n].data = w.image.data
                   /\ w.op = "delete" =>
                         \A n \in 1..Len(result) : result[n].id # StoreKeys[i]

\* C18 witness: the artifact saved by an earlier session has been deleted, another
\* artifact has been put, and getAllSavedImages has resolved with just that one
C18_Witness ==
    \E k \in StoreSlots :
        /\ storeOps[k].kind = "getAll"
        /\ storeOps[k].stage = "resolved"
        /\ storeOps[k].seen[1].op = "delete"
        /\ storeOps[k].seen[2].op = "put"
        /\ Len(storeOps[k].result) = 1
        /\ storeOps[k].result[1].id = StoreKeys[2]
        /\ storeOps[k].result[1].data = storeOps[k].seen[2].image.data

\* C19: on every live connection the image is the first media message sent on the
\* session: no audio frame is sent on it before the image, whatever the order of the
\* microphone callbacks, the resolution of the session promise and the open callback.
C19_ImageSentFirst ==
    \A n \in Connects : conn[n].sent # <<>> => conn[n].sent[1] = "image"

\* C20: after an inbound message with interrupted = true has been handled the playback
\* queue is empty, no source scheduled before the signal is left to play, and the next
\* start time is the current time of the output context (when there is one).
C20_InterruptedClearsPlayback ==
    liveLast.act = "interrupted" =>
        /\ audioQueue = <<>>
        /\ bufferSources = {}
        /\ outputContext # NoRef => nextStartTime = playTime

\* an interrupted message handled while two sources were queued, after the clock moved
C20_Witness ==
    /\ liveLast.act = "interrupted"
    /\ liveLast.queued >= 2
    /\ outputContext # NoRef
    /\ playTime >= 1
    /\ nextStartTime = playTime
    /\ audioQueue = <<>>

\* what "released and disconnected" means: every ref is null, the playback queue is
\* empty, isConnected and isConnecting are false and volume is 0
ReleasedAndDisconnected ==
    /\ mediaStream = NoRef
    /\ sourceNode = NoRef
    /\ processor = NoRef
    /\ inputContext = NoRef
    /\ outputContext = NoRef
    /\ activeSession = NoRef
    /\ audioQueue = <<>>
    /\ ~isConnected
    /\ ~isConnecting
    /\ volume = 0

\* C21: right after disconnect(), or after the close or error callback of a session has
\* run, the channel holds no stream, node, context or session reference, its playback
\* queue is empty, isConnected and isConnecting are false and volume is 0.
C21_TeardownReleasesAll ==
    liveLast.act \in {"disconnect", "close", "error"} => ReleasedAndDisconnected

\* an error handled while the channel held a stream, a session and both contexts;
\* the stream is stopped and the contexts are closed
C21_Witness ==
    /\ liveLast.act = "error"
    /\ liveLast.held
    /\ ReleasedAndDisconnected
    /\ \E n \in Connects :
          conn[n].stream = "stopped" /\ conn[n].ctx = "closed" /\ conn[n].proc = "off"

\* C22: from a call of disconnect() to the next call of connect() the channel stays
\* disconnected and holds no microphone stream, no processing node and no session,
\* also when connect() was still awaiting the microphone or the open callback and
\* while messages of the session still arrive.
C22_StaysDisconnected ==
    disconnected =>
        /\ ~isConnected
        /\ ~isConnecting
        /\ mediaStream = NoRef
        /\ sourceNode = NoRef
        /\ processor = NoRef
        /\ activeSession = NoRef

\* C23: a chunk the channel schedules starts at the later of the next start time and
\* the current time of the output context, and the next start time becomes its start
\* plus its duration; the next start time changes in no other way than by a chunk
\* being scheduled, an interrupt or a new output context, so it is the computed end of
\* the chunk before; the chunks of the queue are in arrival order and the playing
\* times of no two of them overlap.
C23_ChunksBackToBack ==
    [][ /\ Len(audioQueue') = Len(audioQueue) + 1 =>
             LET source == audioQueue'[Len(audioQueue')]
             IN /\ source.start = IF nextStartTime >= playTime THEN nextStartTime
                                                                 ELSE playTime
                /\ source.end > source.start
                /\ nextStartTime' = source.end
        /\ nextStartTime' # nextStartTime =>
             \/ Len(audioQueue') = Len(audioQueue) + 1
             \/ liveLast'.act = "interrupted"
             \/ outputContext = NoRef /\ outputContext' # NoRef
        /\ \A i, j \in 1..Len(audioQueue') :
             i < j => audioQueue'[i].end <= audioQueue'[j].start
      ]_vars

\* two chunks queued: the first was scheduled at the current time, later than the next
\* start time of then, the second at the end of the first
C23_Witness ==
    /\ Len(audioQueue) = 2
    /\ audioQueue[1].start >= 1
    /\ audioQueue[2].start = audioQueue[1].end
    /\ nextStartTime = audioQueue[2].end

\* the operation generateCinematicSummary holds
VideoOperation == response.val

NoLinkMessage == "Video generation failed to return a link."

\* C24: generateCinematicSummary returns a video reference only when the operation it
\* holds has reported done (and carries a link); while the operation has not reported
\* done the call is waiting or polling (or a remote call has rejected); a done
\* operation without a link makes it throw; and, the remote operation completing in
\* the end, every call returns or throws.
C24_VideoPolling ==
    /\ [](request.fn = "video" =>
            /\ returned.kind = "value" =>
                  /\ response.def /\ VideoOperation.done /\ VideoOperation.link # ""
                  /\ returned.val = ObjectURL(VideoOperation.link)
            /\ response.def /\ ~VideoOperation.done =>
                  \/ returned.kind = "pending"
                       /\ request.stage \in {"timer", "getVideosOperation"}
                  \/ returned.kind = "threw" /\ returned.message # NoLinkMessage
            /\ response.def /\ VideoOperation.done /\ VideoOperation.link = "" =>
                  returned.kind = "threw" /\ returned.message = NoLinkMessage)
    /\ (request.fn = "video" ~> returned.kind # "pending")

\* a call that polled twice before the operation was done returns the object URL
C24_Witness ==
    /\ request.fn = "video"
    /\ request.polls = MaxPolls
    /\ returned.kind = "value"
    /\ returned.val = ObjectURL("uri1")

\* a Generate call is awaiting in slot k
Generating(o, k) == o[k].kind = "generate"

\* C25: within one Generate call the image synthesis is started only when the research
\* call has resolved (never when it failed), and the loading stage goes 0 (idle),
\* 1 (research), 2 (synthesis), 0 in this order: while the call runs the stage is
\* 1 up to the research result and 2 after it, it never goes back from 2 to 1, and it
\* is 0 again only when the call has ended.
C25_GenerateStepsInOrder ==
    [][\A k \in Slots :
         /\ Generating(ops', k) /\ ops'[k].stage = "image" /\ ops[k].stage # "image" =>
               /\ Generating(ops, k) /\ ops[k].stage = "research"
               /\ ops'[k].res.def
               /\ last'.act # "rejected"
         /\ Generating(ops, k) /\ Generating(ops', k) =>
               /\ loadingStep' \in {1, 2}
               /\ loadingStep' >= loadingStep
               /\ loadingStep' = 2 => ops'[k].stage = "image"
      ]_vars

\* C26: handleRefreshNews starts a research call whose topic is the prompt of the
\* artifact at historyIndex; the call it started goes from the location to the research
\* step and then ends, never to an image step; and neither its invocation nor any of
\* its steps, resolving or rejecting, changes imageHistory or historyIndex.
C26_RefreshOnlyResearches ==
    [][\A k \in Slots :
         /\ ops[k].kind = "idle" /\ ops'[k].kind = "refresh" =>
               /\ ops'[k].arg[1] = At(imageHistory, historyIndex).prompt
               /\ ops'[k].stage = "location"
               /\ UNCHANGED <<imageHistory, historyIndex>>
         /\ ops[k].kind = "refresh" /\ ops'[k] # ops[k] =>
               /\ \/ ops'[k].kind = "idle"
                  \/ /\ ops'[k].kind = "refresh"
                     /\ ops[k].stage = "location"
                     /\ ops'[k].stage = "research"
               /\ UNCHANGED <<imageHistory, historyIndex>>
      ]_vars

\* a refresh of an edited artifact has resolved: its topic was the edit prompt, not the
\* topic the artifact was first generated for, and history is what it was
C26_Witness ==
    /\ last.act = "refreshOk"
    /\ Len(imageHistory) > 0
    /\ InRange(imageHistory, historyIndex)
    /\ At(imageHistory, historyIndex).prompt # At(imageHistory, historyIndex).originalTopic

\* C27: the artifacts of session history have pairwise distinct ids, after any sequence
\* of Generate, Edit and restore, also when two artifacts are created at the same
\* value of the clock.
C27_DistinctIds ==
    \A i, j \in 1..Len(imageHistory) : i # j => imageHistory[i].id # imageHistory[j].id

\* C28: for every research response the facts returned are at most 5, none of them is
\* the empty string, and they are, in order, the first of the non-empty trimmed lines
\* of the FACTS section of the text: the lines from the FACTS label up to the next
\* IMAGE_PROMPT label or the end of the text.
C28_FactsFromFactsSection ==
    request.fn = "research" /\ returned.kind = "value" =>
        LET text == response.val.text
            facts == returned.val.facts
            f == FirstFrom(text, 1, "FACTS")
            e == FirstFrom(text, f + 1, "IMAGE_PROMPT")
            section == IF f > Len(text) THEN <<>>
                       ELSE [i \in 1..(e - f) |->
                               IF i = 1 THEN text[f].body ELSE FactOf(text[f + i - 1])]
            entries == SelectSeq(section, NonEmpty)
        IN /\ Len(facts) <= 5
           /\ \A i \in 1..Len(facts) : facts[i] # ""
           /\ Len(facts) <= Len(entries)
           /\ facts = SubSeq(entries, 1, Len(facts))

\* C29: the store holds at most one record per id, and so does every result of
\* getAllSavedImages; in such a result the record of an id is the artifact of the last
\* put the store ran for that id, there is none when the last write was a delete, and
\* an id no call has written has what the store held at the start.
C29_KeyedUpsert ==
    /\ \A r1, r2 \in db : r1.id = r2.id => r1 = r2
    /\ \A k \in StoreSlots :
          (storeOps[k].kind = "getAll" /\ storeOps[k].stage = "resolved") =>
              LET result == storeOps[k].result
              IN /\ \A n, m \in 1..Len(result) : result[n].id = result[m].id => n = m
                 /\ \A i \in 1..Len(StoreKeys) :
                       LET w == storeOps[k].seen[i]
                           found == {result[n] : n \in {n \in 1..Len(result) :
                                                          result[n].id = StoreKeys[i]}}
                       IN found = CASE w.op = "put" -> {w.image}
                                    [] w.op = "delete" -> {}
                                    [] OTHER -> {r \in {SavedChart} : r.id = StoreKeys[i]}

\* the artifact saved by an earlier session has been put again with another image:
\* getAllSavedImages resolved with one record of that id, the later one
C29_Witness ==
    \E k \in StoreSlots :
        /\ storeOps[k].kind = "getAll"
        /\ storeOps[k].stage = "resolved"
        /\ storeOps[k].seen[1].op = "put"
        /\ storeOps[k].seen[1].image.data # SavedChart.data
        /\ storeOps[k].result = <<storeOps[k].seen[1].image>>

\* C30: when getUserLocation of a Generate or a RefreshContext settles without a
\* position (denied, unavailable, timed out) the call goes on: the research call is
\* issued, without location, and that step records no error and ends no call.
C30_DenialGoesOn ==
    [][\A k \in Slots :
         ops[k].kind \in {"generate", "refresh"} /\ ops[k].stage = "location"
           /\ ops'[k] # ops[k] =>
               /\ ops'[k].kind = ops[k].kind
               /\ ops'[k].stage = "research"
               /\ ops'[k].loc \in Locations
               /\ ops'[k].arg = ops[k].arg
               /\ UNCHANGED <<error, isLoading, loadingStep, imageHistory, historyIndex>>
      ]_vars

\* a Generate whose location was denied has had its research call resolved and is at
\* its image step, with no error recorded
C30_Witness ==
    \E k \in Slots :
        /\ ops[k].kind = "generate"
        /\ ops[k].stage = "image"
        /\ ops[k].loc = "undefined"
        /\ error = NULL

C32_WritesAtCurrentIndex ==
    [][/\ last'.act = "verifyOk" =>
            /\ InRange(imageHistory', historyIndex')
            /\ LET entry == At(imageHistory', historyIndex')
               IN entry.verification = VerificationOf(entry.data, last'.val, now)
       /\ last'.act = "animateOk" =>
            /\ InRange(imageHistory', historyIndex')
            /\ LET entry == At(imageHistory', historyIndex')
               IN entry.videoUri = VideoOf(entry.data)
      ]_vars

\* C33: an attachment is never lost: when an entry of history has verification
\* (videoUri) defined, then after every step history has an entry of that id with
\* verification (videoUri) defined, whatever Verify, Animate or other operation ran.
C33_AttachmentsKept ==
    [][\A i \in 1..Len(imageHistory) :
         /\ imageHistory[i].verification.def =>
               \E j \in 1..Len(imageHistory') :
                   /\ imageHistory'[j].id = imageHistory[i].id
                   /\ imageHistory'[j].verification.def
         /\ imageHistory[i].videoUri.def =>
               \E j \in 1..Len(imageHistory') :
                   /\ imageHistory'[j].id = imageHistory[i].id
                   /\ imageHistory'[j].videoUri.def
      ]_vars


\* C34: restoring an artifact whose id is already in the history moves
\* historyIndex to the (first) entry of that id and leaves the history as it
\* was; restoring one whose id is absent puts it at the front and sets
\* historyIndex to 0; either way the current entry has the restored id.
C34_RestoreSelects ==
    [][last'.act = "restore" =>
         LET present == {j \in 1..Len(imageHistory) : imageHistory[j].id = last'.val}
         IN /\ present # {} =>
                 /\ imageHistory' = imageHistory
                 /\ historyIndex' + 1 \in present
                 /\ \A j \in present : historyIndex' + 1 <= j
            /\ present = {} =>
                 /\ Len(imageHistory') = Len(imageHistory) + 1
                 /\ Tail(imageHistory') = imageHistory
                 /\ historyIndex' = 0
            /\ InRange(imageHistory', historyIndex')
            /\ At(imageHistory', historyIndex').id = last'.val]_vars

\* The saved artifact was restored, edited (the edit is the current entry at
\* index 0) and restored again: the index moved to its entry at 1.
C34_Witness ==
    /\ Len(imageHistory) = 2
    /\ historyIndex = 1
    /\ imageHistory[2].id = SavedChart.id
    /\ imageHistory[1].id # SavedChart.id
    /\ last.act = "restore"


\* C35: whenever no toggle-save or delete-from-library invocation is pending, the
\* saved list has no two entries of one id and its ids are the ids of the
\* records in the store; a store call that fails leaves the saved list as it was.
C35_LibraryMatchesStore ==
    [][/\ (\A k \in Slots : ops'[k].kind \notin LibraryKinds) =>
            /\ \A i, j \in 1..Len(savedImages') :
                  savedImages'[i].id = savedImages'[j].id => i = j
            /\ Ids(savedImages') = {r.id : r \in db'}
       /\ last'.act = "libraryFailed" => savedImages' = savedImages]_vars


\* C36: isConnected and isConnecting are never both true, and isConnected turns
\* true only in the open callback of the session of a connect() call whose
\* audio contexts have not been closed by a cleanup since.
C36_ConnectedOnlyByLiveOpen ==
    [][/\ ~(isConnected' /\ isConnecting')
       /\ (isConnected' /\ ~isConnected) =>
             \E n \in Connects : /\ conn[n].socket = "connecting"
                                  /\ conn'[n].socket = "open"
                                  /\ conn[n].ctx = "open"]_vars


\* C37: while the channel is connecting or connected no connect() call starts
\* (no call leaves the idle stage and the context refs are not replaced), and at
\* any time at most one microphone stream is live, at most one connect() call has
\* its pair of audio contexts open and at most one remote session is connecting
\* or open.
C37_OneOfEach ==
    [][/\ (isConnecting \/ isConnected) =>
            /\ \A n \in Connects : conn[n].stage = "idle" => conn'[n].stage = "idle"
            /\ inputContext' \in {inputContext, NoRef}
            /\ outputContext' \in {outputContext, NoRef}
       /\ Cardinality({n \in Connects : conn'[n].stream = "live"}) <= 1
       /\ Cardinality({n \in Connects : conn'[n].ctx = "open"}) <= 1
       /\ Cardinality({n \in Connects : conn'[n].socket \in {"connecting", "open"}}) <= 1]_vars


\* C38: after the step in which a Generate, Edit, Verify, Animate or
\* RefreshContext invocation completes successfully the session error is null.
C38_SuccessClearsError ==
    [][last'.act \in {"generateOk", "editOk", "verifyOk", "animateOk", "refreshOk"} =>
         error' = NULL]_vars

====
